---------------------------- MODULE Spec2Model ----------------------------
(***************************************************************************)
(* A model of redux-cofx (src/index.ts): the store middleware that runs    *)
(* effect functions through the cofx task runner, the one-shot event       *)
(* emitter behind the TAKE effect, and the batching reducer wrapper.       *)
(*                                                                         *)
(* JavaScript values are untyped, TLC's are not, so every JS value is a    *)
(* record: a string s is Str(s), an array l is List(l), undefined is       *)
(* Undefined, an action is [type, payload], the store state is             *)
(* [awesome, wow].  The type of an action stays a bare string.             *)
(*                                                                         *)
(* A synchronous call tree of the program (store.dispatch -> middleware -> *)
(* task runner -> effect function -> effect handler -> store.dispatch ...) *)
(* is one atomic action of the model, computed by mutually recursive       *)
(* operators over a record w holding all the variables.  What JavaScript   *)
(* defers to a later turn of the event loop (the continuation of an effect *)
(* function after a yielded promise settled, the .catch callback of the    *)
(* middleware) is an action of its own.                                    *)
(***************************************************************************)
EXTENDS Integers, Sequences, FiniteSets, TLC

\* ------------------------------------------------------------------ bounds

\* store.dispatch calls made by the application from outside any effect
MaxDispatch == 2
\* sub and emit calls on a bare EventEmitter
MaxOps == 5
\* length of the payload of a batch action given to the reducer
MaxBatch == 3
\* calls of createEffect, createEffects and of the creators it returns
MaxCreate == 3
\* calls of the effect handler on its own
MaxHandle == 2
\* store.dispatch calls of the application with the further effects
MaxEffects == 1
\* store.dispatch calls of the application with the effects of two steps
MaxSequence == 3
\* store.dispatch calls of the application on either of two stores
MaxStores == 3

\* ------------------------------------------------------------- JS values

Undefined == [undefined |-> TRUE]
Str(s) == [str |-> s]
List(l) == [list |-> l]

\* a promise: pending, or settled with a value
Pending == [st |-> "pending"]
Resolved(v) == [st |-> "resolved", val |-> v]
Rejected(e) == [st |-> "rejected", val |-> e]

\* how a synchronous call ended
Returned(v) == [kind |-> "return", val |-> v]
Threw(e) == [kind |-> "throw", err |-> e]

Last(s) == s[Len(s)]
Front(s) == SubSeq(s, 1, Len(s) - 1)

\* `const x = value; ... body ...`: value is computed once and body reads
\* the result (a LET definition is computed again at every use)
Bind(value, body(_)) == CHOOSE result \in {body(x) : x \in {value}} : TRUE

\* ------------------------------------------------ action and effect shapes

ERROR == "@@redux-cofx/ERROR"
EFFECT == "@@redux-cofx/EFFECT"
BATCH == "@@redux-cofx/BATCH"
BATCH_ACTIONS == "@@redux-cofx/BATCH_ACTIONS"
PUT == "PUT"
SELECT == "SELECT"
\* the constant TAKE of the source (TAKE is a reserved word of TLA+)
TAKE_ == "TAKE"
\* the STORE effect of the specification; src/test.ts imports `store` from
\* the module, the src/index.ts at hand does not have it yet
STORE == "STORE"

error(payload) == [type |-> ERROR, payload |-> payload]

\* a variant of createEffect that keeps only the first of the arguments
createEffectNoRest(fn, args) ==
    [type |-> EFFECT,
     payload |-> [fn |-> fn,
                  args |-> IF args = <<>> THEN <<>> ELSE <<Head(args)>>]]

\* createEffect(fn, ...args), the branch taken when val is a function
createEffect(fn, args) == [type |-> EFFECT, payload |-> [fn |-> fn, args |-> args]]

\* createEffect(obj), the branch taken when isObject(val): `{ ...obj }`
\* copies the object's own fields, whichever they are, into the payload
createEffectObj(obj) == [type |-> EFFECT, payload |-> obj]

\* The creator createEffects stores under `name`, a closure over effectMap
\* and name, and a call of it: createEffect(effectMap[name], payload).
creator(effectMap, name) == [effectMap |-> effectMap, name |-> name]

\* a variant of callCreator that passes no payload on
callCreatorNoPayload(c, payload) == createEffect(c.effectMap[c.name], <<>>)

callCreator(c, payload) == createEffect(c.effectMap[c.name], <<payload>>)

\* Object.keys(effectMap).reduce(...): one creator per key of the map
createEffects(effectMap) ==
    [name \in DOMAIN effectMap |-> creator(effectMap, name)]

batch(actions) == [type |-> BATCH, actions |-> actions]
batchActions(payload) == [type |-> BATCH_ACTIONS, payload |-> List(payload)]
put(action) == [type |-> PUT, action |-> action]
select(fn, args) == [type |-> SELECT, fn |-> fn, args |-> args]
take(actionType) == [type |-> TAKE_, actionType |-> actionType]
store == [type |-> STORE]

\* val.constructor: an instance of a class carries its constructor's name,
\* arrays, strings and promises are told by their shape, anything else is
\* an object literal
constructorOf(val) ==
    IF "constructor" \in DOMAIN val THEN val.constructor
    ELSE IF "list" \in DOMAIN val THEN "Array"
    ELSE IF "str" \in DOMAIN val THEN "String"
    ELSE IF "st" \in DOMAIN val THEN "Promise"
    ELSE "Object"

\* Object == val.constructor
isObject(val) == constructorOf(val) = "Object"

\* a variant of typeDetector that takes any object with the type
typeDetectorAnyObject(type, value) ==
    value # Undefined /\ "type" \in DOMAIN value /\ value.type = type

\* typeDetector(type): value && isObject(value) && value.type === type
typeDetector(type, value) ==
    /\ value # Undefined
    /\ isObject(value)
    /\ "type" \in DOMAIN value
    /\ value.type = type
isBatch(effect) == typeDetector(BATCH, effect)
isPut(effect) == typeDetector(PUT, effect)
isSelect(effect) == typeDetector(SELECT, effect)
isTake(effect) == typeDetector(TAKE_, effect)
isStore(effect) == typeDetector(STORE, effect)

\* `action && action.type === EFFECT`
isEffectAction(action) ==
    action # Undefined /\ "type" \in DOMAIN action /\ action.type = EFFECT

\* JS truthiness of `action && action.type`: the empty string is falsy
hasTruthyType(action) ==
    action # Undefined /\ "type" \in DOMAIN action /\ action.type # ""


\* ------------------------------------------------------- the redux store

\* the reducer of the repository's tests: two fields, each set by one type
reducer(state, action) ==
    IF action.type = "AWESOME" THEN [state EXCEPT !.awesome = action.payload]
    ELSE IF action.type = "WOW" THEN [state EXCEPT !.wow = action.payload]
    ELSE state

\* a variant of reduceReducer that goes from the last element to the first
RECURSIVE reduceRightReducer(_, _)
reduceRightReducer(payload, state) ==
    IF payload = <<>> THEN state
    ELSE reduceRightReducer(Front(payload), reducer(state, Last(payload)))

\* action.payload.reduce(reducer, state): Array.prototype.reduce, from the
\* first element to the last
RECURSIVE reduceReducer(_, _)
reduceReducer(payload, state) ==
    IF payload = <<>> THEN state
    ELSE reduceReducer(Tail(payload), reducer(state, Head(payload)))

\* the reducer returned by enableBatching(reducer)
enableBatching(state, action) ==
    IF action.type = BATCH \/ action.type = BATCH_ACTIONS
    THEN reduceReducer(action.payload.list, state)
    ELSE reducer(state, action)

\* The store's own dispatch, the `next` link of the middleware under
\* createStore(enableBatching(reducer), applyMiddleware(cofxMiddleware)):
\* redux rejects an action without a type by throwing, otherwise it runs
\* the root reducer once, notifies the subscribers once and returns the
\* action.  Every call is logged in w.dispatched.
next(w, action) ==
    LET ok == action # Undefined /\ "type" \in DOMAIN action
        state == IF ok THEN enableBatching(w.state, action) ELSE w.state
        out == IF ok THEN Returned(action)
               ELSE Threw(Str("Actions must be plain objects."))
    IN [w EXCEPT !.state = state,
                 !.dispatched = Append(@, [action |-> action, prev |-> w.state,
                                           state |-> state, out |-> out]),
                 !.ret = out]

\* ------------------------------------------------------- EventEmitter

has(listeners, actionType) == actionType \in DOMAIN listeners

sub(listeners, actionType, fn) ==
    LET l == IF ~has(listeners, actionType)
             THEN listeners @@ (actionType :> <<>>)
             ELSE listeners
    IN [l EXCEPT ![actionType] = Append(@, fn)]

\* a variant of unsubType that leaves the list as it is
unsubTypeKeep(listeners, actionType) == listeners

unsubType(listeners, actionType) ==
    IF ~has(listeners, actionType) THEN listeners
    ELSE [listeners EXCEPT ![actionType] = <<>>]

\* The callback takeEffect subscribes, `(action) => resolve(action)`, for the
\* waiter `id`: a promise settles once, later calls of resolve change
\* nothing.  Every invocation is logged in w.invoked, with the number of
\* store dispatches (nd) and of runs started (nr) so far.
cb(w, id, action) ==
    [w EXCEPT !.waiters[id].promise =
                  IF @.st = "pending" THEN Resolved(action) ELSE @,
              !.invoked = Append(@, [cb |-> id, data |-> action,
                                     emit |-> Len(w.emits),
                                     nd |-> Len(w.dispatched),
                                     nr |-> Len(w.runs)])]

\* a variant of forEachCb that calls the first callback only
forEachCbFirst(w, fns, data) ==
    IF fns = <<>> THEN w ELSE cb(w, Head(fns), data)

\* this.listeners[actionType].forEach((cb) => cb(data))
RECURSIVE forEachCb(_, _, _)
forEachCb(w, fns, data) ==
    IF fns = <<>> THEN w
    ELSE Bind(cb(w, Head(fns), data),
              LAMBDA w1 : forEachCb(w1, Tail(fns), data))

emit(w, actionType, data) ==
    IF ~has(w.listeners, actionType) THEN w
    ELSE Bind([w EXCEPT !.emits = Append(@, [actionType |-> actionType,
                                               data |-> data,
                                               at |-> Len(w.passed)])],
              LAMBDA w1 :
         Bind(forEachCb(w1, w1.listeners[actionType], data),
              LAMBDA w2 :
         [w2 EXCEPT !.listeners = unsubType(w2.listeners, actionType)]))


\* ------------------------------------------------- effect functions (inputs)

\* The effect functions the application dispatches, after the ones of the
\* repository's tests, each taking what it yields from its arguments:
\*   function* effPut(action)     { yield put(action); }
\*   function* effBatch(actions)  { yield batch(actions); }
\*   function* effTake(type)      { return yield take(type); }
\*   function* effSelect(sel, id) { return yield select(sel, id); }
\*   const prom = () => Promise.reject('some error');
\*   const fn = (props) => {};
\*   function* effOne(payload)    { yield put({ type: 'AWESOME', payload }); }
\*   function* effTwo(payload)    { yield put({ type: 'WOW', payload }); }
\*   function* effStore()         { const curStore = yield store();
\*                                  return curStore.getState(); }
\* and two functions that yield twice:
\*   function* effPutSelect(action, sel, id) { yield put(action);
\*                                  return yield select(sel, id); }
\*   function* effTakeTwice(type) { yield take(type);
\*                                  return yield take(type); }
isGeneratorFn(fn) ==
    fn \in {"effPut", "effBatch", "effTake", "effSelect", "effOne", "effTwo",
            "effStore", "effPutSelect", "effTakeTwice"}

Yield(effect) == [done |-> FALSE, value |-> effect]
Done(value) == [done |-> TRUE, value |-> value]
\* iter.next throwing err
Throws(err) == [done |-> TRUE, value |-> err, threw |-> TRUE]

\* iter.next(got) of the generator fn(...args) that has yielded pc times;
\* cur is the state of the store, for the functions that call getState()
GenNext(fn, args, pc, got, cur) ==
    CASE fn = "effPut" /\ pc = 0 -> Yield(put(args[1]))
      [] fn = "effBatch" /\ pc = 0 -> Yield(batch(args[1].list))
      [] fn = "effTake" /\ pc = 0 -> Yield(take(args[1].str))
      [] fn = "effTake" /\ pc = 1 -> Done(got)
      [] fn = "effSelect" /\ pc = 0 -> Yield(select(args[1].str, <<args[2]>>))
      [] fn = "effSelect" /\ pc = 1 -> Done(got)
      [] fn = "effOne" /\ pc = 0 ->
            Yield(put([type |-> "AWESOME", payload |-> args[1]]))
      [] fn = "effTwo" /\ pc = 0 ->
            Yield(put([type |-> "WOW", payload |-> args[1]]))
      [] fn = "effStore" /\ pc = 0 -> Yield(store)
      [] fn = "effStore" /\ pc = 1 ->
            IF got # Undefined /\ "getState" \in DOMAIN got
            THEN Done(cur)
            ELSE Throws(Str("TypeError: curStore.getState is not a function"))
      [] fn = "effPutSelect" /\ pc = 0 -> Yield(put(args[1]))
      [] fn = "effPutSelect" /\ pc = 1 ->
            Yield(select(args[2].str, <<args[3]>>))
      [] fn = "effPutSelect" /\ pc = 2 -> Done(got)
      [] fn = "effTakeTwice" /\ pc \in {0, 1} -> Yield(take(args[1].str))
      [] fn = "effTakeTwice" /\ pc = 2 -> Done(got)
      [] OTHER -> Done(Undefined)

\* fn(...args) of a function that is no generator: what it returns
callFn(fn, args) ==
    IF fn = "prom" THEN Rejected(Str("some error")) ELSE Undefined

isPromise(value) == "st" \in DOMAIN value

\* the selectors of the tests: (state) => state and
\* (state, props) => state[props.id]
applySelector(fn, state, args) ==
    IF fn = "getById"
    THEN (IF args[1] = Str("awesome") THEN state.awesome
          ELSE IF args[1] = Str("wow") THEN state.wow
          ELSE Undefined)
    ELSE state

\* ------------------------------------------------------- effect handlers

RECURSIVE dispatch(_, _)

\* a variant of putEffect that calls the store's own dispatch, past the
\* middleware
putEffectToStore(w, effect) ==
    Bind(next(w, effect.action), LAMBDA w1 :
    [w1 EXCEPT !.ret = Resolved(Undefined)])

\* a variant of putEffect that returns what dispatch returned
putEffectReturnsDispatch(w, effect) == dispatch(w, effect.action)

putEffect(w, effect) ==
    Bind(dispatch(w, effect.action), LAMBDA w1 :
    [w1 EXCEPT !.ret = Resolved(Undefined)])

isNormalAction(action) == action = Undefined \/ action.type # EFFECT

\* effectActions.forEach((action) => { dispatch(action); })
RECURSIVE forEachDispatch(_, _)
forEachDispatch(w, actions) ==
    IF actions = <<>> THEN w
    ELSE Bind(dispatch(w, Head(actions)),
              LAMBDA w1 : forEachDispatch(w1, Tail(actions)))

\* a variant of batchEffect that dispatches the effect actions first
batchEffectEffectsFirst(w, effect) ==
    LET normalActions == SelectSeq(effect.actions, isNormalAction)
        effectActions == SelectSeq(effect.actions, isEffectAction)
    IN Bind(forEachDispatch(w, effectActions), LAMBDA w1 :
       Bind(dispatch(w1, [type |-> BATCH, payload |-> List(normalActions)]),
            LAMBDA w2 :
       [w2 EXCEPT !.ret = Resolved(Undefined)]))

\* a variant of batchEffect that dispatches every action on its own
batchEffectOneByOne(w, effect) ==
    Bind(forEachDispatch(w, effect.actions), LAMBDA w1 :
    [w1 EXCEPT !.ret = Resolved(Undefined)])

\* the runs started by the create-effect actions handled as passed[from+1..to]
\* that are rejected by now
RECURSIVE firstRejected(_, _, _)
firstRejected(w, from, to) ==
    IF from >= to THEN Undefined
    ELSE LET out == w.passed[from + 1].out
         IN IF "run" \in DOMAIN out /\ w.runs[out.run].task.st = "rejected"
            THEN w.runs[out.run].task
            ELSE firstRejected(w, from + 1, to)

\* a variant of batchEffect that returns Promise.all of what the dispatches
\* of the effect actions returned: rejected as soon as one of them is
batchEffectAll(w, effect) ==
    LET normalActions == SelectSeq(effect.actions, isNormalAction)
        effectActions == SelectSeq(effect.actions, isEffectAction)
    IN Bind(dispatch(w, [type |-> BATCH, payload |-> List(normalActions)]),
            LAMBDA w1 :
       Bind(forEachDispatch(w1, effectActions), LAMBDA w2 :
       LET failed == firstRejected(w2, Len(w1.passed), Len(w2.passed))
       IN [w2 EXCEPT !.ret = IF failed # Undefined THEN failed
                              ELSE Resolved(Undefined)]))

\* a variant of batchEffect that dispatches no bundle when the list has no
\* plain action
batchEffectSkipEmpty(w, effect) ==
    LET normalActions == SelectSeq(effect.actions, isNormalAction)
        effectActions == SelectSeq(effect.actions, isEffectAction)
    IN Bind(IF normalActions = <<>> THEN w
            ELSE dispatch(w, [type |-> BATCH, payload |-> List(normalActions)]),
            LAMBDA w1 :
       Bind(forEachDispatch(w1, effectActions), LAMBDA w2 :
       [w2 EXCEPT !.ret = Resolved(Undefined)]))

batchEffect(w, effect) ==
    LET normalActions == SelectSeq(effect.actions, isNormalAction)
        effectActions == SelectSeq(effect.actions, isEffectAction)
    IN Bind(dispatch(w, [type |-> BATCH, payload |-> List(normalActions)]),
            LAMBDA w1 :
       Bind(forEachDispatch(w1, effectActions), LAMBDA w2 :
       [w2 EXCEPT !.ret = Resolved(Undefined)]))

\* a variant of selectEffect that resolves with nothing, as putEffect does
selectEffectNoResult(w, effect) == [w EXCEPT !.ret = Resolved(Undefined)]

\* a variant of selectEffect that reads the state the store held before its
\* last update
selectEffectStale(w, effect) ==
    LET state == IF w.dispatched = <<>> THEN w.state
                 ELSE Last(w.dispatched).prev
        result == applySelector(effect.fn, state, effect.args)
    IN [w EXCEPT !.ret = Resolved(result)]

selectEffect(w, effect) ==
    LET state == w.state
        result == applySelector(effect.fn, state, effect.args)
    IN [w EXCEPT !.ret = Resolved(result)]

\* a variant of takeEffect that is resolved at once with the last action of
\* its type handled so far, where there is one
takeEffectReplay(w, effect, run) ==
    LET id == Len(w.waiters) + 1
        earlier == {i \in 1..Len(w.passed) :
                      /\ w.passed[i].action # Undefined
                      /\ "type" \in DOMAIN w.passed[i].action
                      /\ w.passed[i].action.type = effect.actionType}
        last == CHOOSE i \in earlier : \A j \in earlier : j <= i
    IN [w EXCEPT !.waiters =
                    Append(@, [actionType |-> effect.actionType,
                               run |-> run,
                               regAt |-> Len(w.passed),
                               regEmit |-> Len(w.emits),
                               promise |-> IF earlier = {} THEN Pending
                                           ELSE Resolved(w.passed[last].action)]),
                 !.listeners = sub(@, effect.actionType, id),
                 !.ret = [waiter |-> id]]

\* The promise takeEffect returns is the one its callback resolves; the
\* model keeps it in the waiter and returns a reference to it.  run,
\* regAt and regEmit record who registered and when.
takeEffect(w, effect, run) ==
    LET id == Len(w.waiters) + 1
    IN [w EXCEPT !.waiters = Append(@, [actionType |-> effect.actionType,
                                        run |-> run,
                                        regAt |-> Len(w.passed),
                                        regEmit |-> Len(w.emits),
                                        promise |-> Pending]),
                 !.listeners = sub(@, effect.actionType, id),
                 !.ret = [waiter |-> id]]

\* storeEffect of the specification: resolves with the accessors of the
\* store the middleware is attached to
storeEffect(w) ==
    [w EXCEPT !.ret = Resolved([dispatch |-> "dispatch",
                                getState |-> "getState"])]

\* a variant of effectHandler without a branch for STORE, whatever the
\* module exports
effectHandlerNoStore(w, effect, run) ==
    Bind(IF isPut(effect) THEN putEffect(w, effect)
         ELSE IF isBatch(effect) THEN batchEffect(w, effect)
         ELSE IF isSelect(effect) THEN selectEffect(w, effect)
         ELSE IF isTake(effect) THEN takeEffect(w, effect, run)
         ELSE [w EXCEPT !.ret = effect],
         LAMBDA w1 :
    [w1 EXCEPT !.handled = Append(@, [run |-> run, effect |-> effect,
                                      from |-> Len(w.dispatched),
                                      to |-> Len(w1.dispatched),
                                      fromP |-> Len(w.passed),
                                      toP |-> Len(w1.passed),
                                      result |-> w1.ret])])

\* every handled effect is logged in w.handled with the range of store
\* dispatches it caused (from, to), the range of actions the middleware
\* handled meanwhile (fromP, toP) and what the handler returned.  The
\* branch for STORE exists in the module that exports `store` (w.hasStore).
effectHandler(w, effect, run) ==
    Bind(IF isPut(effect) THEN putEffect(w, effect)
         ELSE IF isBatch(effect) THEN batchEffect(w, effect)
         ELSE IF isSelect(effect) THEN selectEffect(w, effect)
         ELSE IF isTake(effect) THEN takeEffect(w, effect, run)
         ELSE IF w.hasStore /\ isStore(effect) THEN storeEffect(w)
         ELSE [w EXCEPT !.ret = effect],
         LAMBDA w1 :
    [w1 EXCEPT !.handled = Append(@, [run |-> run, effect |-> effect,
                                      from |-> Len(w.dispatched),
                                      to |-> Len(w1.dispatched),
                                      fromP |-> Len(w.passed),
                                      toP |-> Len(w1.passed),
                                      result |-> w1.ret])])

\* next(nextEffect): cofx turns what the handler returned into a promise
cofxMiddleware(w, effect, run) ==
    Bind(effectHandler(w, effect, run), LAMBDA w1 :
    LET nextEffect == w1.ret
    IN IF isPromise(nextEffect) \/ "waiter" \in DOMAIN nextEffect THEN w1
       ELSE [w1 EXCEPT !.ret = Resolved(nextEffect)])


\* ------------------------------------------------- the cofx task runner

\* onFulfilled(res) of the runtime: resume the generator of run r with res,
\* settle the task when it returns or throws, otherwise pass what it
\* yielded through the effect middleware and wait for the promise
onFulfilled(w, r, res) ==
    LET run == w.runs[r]
        ret == GenNext(run.fn, run.args, run.pc, res, w.state)
    IN IF "threw" \in DOMAIN ret
       THEN [w EXCEPT !.runs[r].task = Rejected(ret.value),
                      !.runs[r].eff = Undefined]
       ELSE IF ret.done
       THEN [w EXCEPT !.runs[r].task = Resolved(ret.value),
                      !.runs[r].eff = Undefined]
       ELSE Bind(cofxMiddleware(w, ret.value, r), LAMBDA w1 :
            [w1 EXCEPT !.runs[r].eff = w1.ret,
                       !.runs[r].pc = run.pc + 1])

\* task({fn, args, cancel}): calls fn once with args; a generator is run to
\* its first yield at once, any other return value settles the task.  `at`
\* records which of the actions handled started the run.
task(w, obj) ==
    LET r == Len(w.runs) + 1
        run == [fn |-> obj.fn, args |-> obj.args, pc |-> 0, eff |-> Undefined,
                task |-> Pending, outer |-> Pending, at |-> Len(w.passed)]
        iter == callFn(obj.fn, obj.args)
    IN Bind([w EXCEPT !.runs = Append(@, run)], LAMBDA w0 :
       Bind(IF isGeneratorFn(obj.fn)
            THEN onFulfilled(w0, r, Undefined)
            ELSE [w0 EXCEPT !.runs[r].task = IF isPromise(iter) THEN iter
                                             ELSE Resolved(iter)],
            LAMBDA w1 :
       [w1 EXCEPT !.ret = [run |-> r]]))

\* ------------------------------------------------- createMiddleware

\* a variant of taskObj that forgets the extra argument
taskObjNoExtra(payload, extra) ==
    LET args == IF "args" \in DOMAIN payload THEN payload.args ELSE <<>>
        cancel == IF "cancel" \in DOMAIN payload THEN payload.cancel
                  ELSE Undefined
    IN [fn |-> payload.fn, args |-> args, cancel |-> cancel]

\* `const { fn, args = [], cancel } = payload` and the object given to the
\* task runner, `{ fn, args: [...args, extraArg], cancel }`
taskObj(payload, extra) ==
    LET args == IF "args" \in DOMAIN payload THEN payload.args ELSE <<>>
        cancel == IF "cancel" \in DOMAIN payload THEN payload.cancel
                  ELSE Undefined
    IN [fn |-> payload.fn, args |-> args \o <<extra>>, cancel |-> cancel]

\* emit(actionType, data) for each of the types
RECURSIVE emitTypes(_, _, _)
emitTypes(w, types, data) ==
    IF types = {} THEN w
    ELSE LET actionType == CHOOSE t \in types : TRUE
         IN Bind(emit(w, actionType, data), LAMBDA w1 :
            emitTypes(w1, types \ {actionType}, data))

\* a variant of wake that wakes the waiters of every type
wakeEveryType(w, action) ==
    IF hasTruthyType(action)
    THEN emitTypes(w, DOMAIN w.listeners, action)
    ELSE w

\* the first statement of the handler: wake the waiters of the action's type
wake(w, action) ==
    IF hasTruthyType(action) /\ has(w.listeners, action.type)
    THEN emit(w, action.type, action)
    ELSE w

\* a variant of route that returns early on a missing action
routeDropMissing(w, action) ==
    IF action = Undefined THEN [w EXCEPT !.ret = Returned(Undefined)]
    ELSE IF action.type # EFFECT THEN next(w, action)
    ELSE task(w, taskObj(action.payload, w.extraArg))

\* a variant of route that starts no run for a create-effect action while a
\* run of the same function with the same arguments is pending, and returns
\* the promise of that run
routeOncePending(w, action) ==
    IF action = Undefined \/ action.type # EFFECT
    THEN next(w, action)
    ELSE LET obj == taskObj(action.payload, w.extraArg)
             same == {r \in 1..Len(w.runs) :
                        /\ w.runs[r].fn = obj.fn
                        /\ w.runs[r].args = obj.args
                        /\ w.runs[r].task = Pending}
         IN IF same = {} THEN task(w, obj)
            ELSE [w EXCEPT !.ret = [run |-> CHOOSE r \in same : TRUE]]

\* a variant of route that hands a create-effect action to `next` as well
routeAlsoNext(w, action) ==
    IF action = Undefined \/ action.type # EFFECT
    THEN next(w, action)
    ELSE Bind(next(w, action), LAMBDA w1 :
         task(w1, taskObj(action.payload, w1.extraArg)))

\* the rest of the handler: anything but a create-effect action goes to
\* `next` and what `next` returns (or throws) is the outcome; a
\* create-effect action starts a run and the outcome is the promise
\* task(...).catch(...) of that run
route(w, action) ==
    IF action = Undefined \/ action.type # EFFECT
    THEN next(w, action)
    ELSE task(w, taskObj(action.payload, w.extraArg))

\* this.listeners[action.type] when the action comes in
listening(w, action) ==
    IF action # Undefined /\ "type" \in DOMAIN action
       /\ has(w.listeners, action.type)
    THEN w.listeners[action.type]
    ELSE <<>>

\* (next) => (action) => ... of createMiddleware(extraArg), with the store's
\* dispatch as `next`: store.dispatch of the store the middleware is applied
\* to.  Every action handled is logged in w.passed, together with the
\* outcome of the call once it ended, the callbacks registered for its type
\* when it came in, and the number of store dispatches (nd) and of runs
\* started (nr) before it.
dispatch(w, action) ==
    Bind([w EXCEPT !.passed = Append(@, [action |-> action,
                                         out |-> Undefined,
                                         waiting |-> listening(w, action),
                                         nd |-> Len(w.dispatched),
                                         nr |-> Len(w.runs)])],
         LAMBDA w0 :
    Bind(wake(w0, action), LAMBDA w1 :
    Bind(route(w1, action), LAMBDA w2 :
    [w2 EXCEPT !.passed[Len(w.passed) + 1].out = w2.ret])))

\* a variant of catchCallback that does not throw err again
catchCallbackSwallow(w, r, err) ==
    Bind(dispatch(w, error(err)), LAMBDA w1 :
    [w1 EXCEPT !.runs[r].outer = Resolved(Undefined)])

\* the callback of .catch((err) => { dispatch(error(err)); throw err; }) for
\* run r, whose task was rejected with err
catchCallback(w, r, err) ==
    Bind(dispatch(w, error(err)), LAMBDA w1 :
    [w1 EXCEPT !.runs[r].outer = Rejected(err)])

\* ------------------------------------------------------------- the state

VARIABLES
    state,       \* the store's state
    listeners,   \* EventEmitter.listeners: action type -> waiter ids
    waiters,     \* the promises of takeEffect, by registration
    runs,        \* the runs of the task runner, in the order they started
    extraArg,    \* the argument createMiddleware was called with
    passed,      \* log: actions the middleware handled, with the outcome
    dispatched,  \* log: calls of the store's own dispatch
    emits,       \* log: emissions that found the type registered
    invoked,     \* log: invocations of waiter callbacks
    handled,     \* log: effects handled by effectHandler
    made,        \* log: calls of createEffect, createEffects and creators
    hasStore,    \* whether the module is the one that has the STORE effect
    second,      \* a second store with the same middleware, where there is one
    n            \* operations done by the environment

vars == <<state, listeners, waiters, runs, extraArg, passed, dispatched,
          emits, invoked, handled, made, hasStore, second, n>>

World ==
    [state |-> state, listeners |-> listeners, waiters |-> waiters,
     runs |-> runs, extraArg |-> extraArg, passed |-> passed,
     dispatched |-> dispatched, emits |-> emits, invoked |-> invoked,
     handled |-> handled, hasStore |-> hasStore, ret |-> Undefined]

Sets(w) ==
    /\ state' = w.state
    /\ listeners' = w.listeners
    /\ waiters' = w.waiters
    /\ runs' = w.runs
    /\ passed' = w.passed
    /\ dispatched' = w.dispatched
    /\ emits' = w.emits
    /\ invoked' = w.invoked
    /\ handled' = w.handled
    /\ UNCHANGED <<extraArg, hasStore, second>>

Becomes(w) == Sets(w) /\ UNCHANGED made

\* a variant of worldOfSecond with one emitter, made when the middleware is
\* created, for all the stores the middleware is applied to
worldOfSecondOneEmitter ==
    [World EXCEPT !.state = second.state,
                  !.passed = second.passed,
                  !.dispatched = second.dispatched]

\* What a call on the second store works on.  Promises and runs are objects
\* of the one JavaScript heap; the state and the dispatch of the store are
\* the second store's, and so is the emitter: `new EventEmitter()` is in
\* the function applyMiddleware calls once for each store, not in
\* createMiddleware, so every store gets its own.
worldOfSecond ==
    [World EXCEPT !.state = second.state,
                  !.listeners = second.listeners,
                  !.passed = second.passed,
                  !.dispatched = second.dispatched]

\* the outcome of a call on the second store; `owns` are the runs started by
\* that store's handler
SetsSecond(w) ==
    /\ second' = [state |-> w.state, listeners |-> w.listeners,
                  passed |-> w.passed, dispatched |-> w.dispatched,
                  owns |-> second.owns \cup ((Len(runs) + 1)..Len(w.runs))]
    /\ waiters' = w.waiters
    /\ runs' = w.runs
    /\ emits' = w.emits
    /\ invoked' = w.invoked
    /\ handled' = w.handled
    /\ UNCHANGED <<state, listeners, passed, dispatched, extraArg, hasStore,
                   made>>


\* ------------------------------------------------------------- inputs

\* the state of a store created without a preloaded state
InitState == [awesome |-> Undefined, wow |-> Undefined]

awesomeOk == [type |-> "AWESOME", payload |-> Str("ok")]
wowNice == [type |-> "WOW", payload |-> Str("nice")]
wowGetIt == [type |-> "WOW", payload |-> Str("get it")]
something == [type |-> "SOMETHING", payload |-> Str("nice")]
somethingElse == [type |-> "SOMETHING", payload |-> Str("other")]
emptyType == [type |-> ""]
otherEffect == createEffect("effPut", <<wowGetIt>>)

\* what the application dispatches on the store
PlainInputs ==
    {awesomeOk, something, emptyType, Undefined,
     batchActions(<<awesomeOk, wowNice>>)}

EffectInputs ==
    {createEffect("effPut", <<wowNice>>),
     createEffect("effPut", <<otherEffect>>),
     createEffect("effBatch", <<List(<<>>)>>),
     createEffect("effBatch", <<List(<<awesomeOk, wowNice>>)>>),
     createEffect("effBatch", <<List(<<awesomeOk, wowNice, otherEffect>>)>>),
     createEffect("effTake", <<Str("SOMETHING")>>),
     createEffect("effTake", <<Str("")>>),
     createEffect("effSelect", <<Str("getById"), Str("awesome")>>),
     createEffect("effSelect", <<Str("identity"), Undefined>>),
     createEffect("fn", <<Str("props")>>),
     [type |-> EFFECT, payload |-> [fn |-> "prom"]]}

ExtraArgs == {Undefined, Str("extra")}

\* what is emitted on a bare emitter
EmitInputs == {something, somethingElse, emptyType}

\* sequences over S of length at most k
RECURSIVE SeqsUpTo(_, _)
SeqsUpTo(S, k) ==
    IF k = 0 THEN {<<>>}
    ELSE LET shorter == SeqsUpTo(S, k - 1)
         IN shorter \cup {Append(l, x) : l \in shorter, x \in S}

\* what the root reducer is applied to
FieldValues == {Undefined, Str("ok"), Str("nice"), Str("get it")}
StoreStates == [awesome : FieldValues, wow : FieldValues]
ReducerInputs ==
    {awesomeOk, wowNice, something}
    \cup {[type |-> t, payload |-> List(l)] :
            t \in {BATCH, BATCH_ACTIONS},
            l \in SeqsUpTo({awesomeOk, wowNice, wowGetIt}, MaxBatch)}

\* further effects the application dispatches: effects that PUT or batch
\* other effects, effects that fail, effects the handler does not know
takeSomething == createEffect("effTake", <<Str("SOMETHING")>>)
promEffect == [type |-> EFFECT, payload |-> [fn |-> "prom"]]

MorePlainInputs == {awesomeOk, something}

\* createStore(rootReducer, preloadedState, applyMiddleware(...))
PreloadedStates == {InitState, [awesome |-> Str("nice"), wow |-> Str("ok")]}

MoreEffectInputs ==
    {createEffect("effPut", <<wowNice>>),
     createEffect("effPut", <<takeSomething>>),
     createEffect("effPut", <<otherEffect>>),
     createEffect("effBatch", <<List(<<awesomeOk, otherEffect, promEffect>>)>>),
     createEffect("effBatch", <<List(<<promEffect, wowNice>>)>>),
     createEffect("effBatch", <<List(<<takeSomething, awesomeOk, otherEffect>>)>>),
     createEffect("effBatch", <<List(<<otherEffect, takeSomething>>)>>),
     promEffect}

\* what is dispatched on a store whose middleware has the STORE effect
StoreInputs ==
    {createEffect("effStore", <<>>), awesomeOk, wowNice,
     createEffect("effPut", <<wowGetIt>>)}

\* what is dispatched on a store whose effects yield twice: a PUT and then a
\* SELECT, a TAKE and then another TAKE of the same type
awesomeNice == [type |-> "AWESOME", payload |-> Str("nice")]
takeTwice == createEffect("effTakeTwice", <<Str("SOMETHING")>>)
SequenceInputs ==
    {createEffect("effPutSelect", <<awesomeOk, Str("getById"), Str("awesome")>>),
     takeTwice, something, somethingElse, awesomeNice}

\* what is dispatched on either of two stores
StoresInputs == {takeSomething, something, awesomeOk}

\* what the effect handler is called with: the effects of this module, and
\* values it does not classify (effects of the task runner, an effect of a
\* type it does not have, an instance of a class with the type of PUT, a
\* promise, an array, a string, undefined)
callFnEffect == [type |-> "CALL", fn |-> "fn", args |-> <<>>]
putInstance == [constructor |-> "Effect", type |-> PUT, action |-> wowNice]
HandlerInputs ==
    {put(awesomeOk), batch(<<awesomeOk, wowNice>>), take("SOMETHING"),
     select("identity", <<>>),
     callFnEffect, store, putInstance, Resolved(Str("value")),
     List(<<>>), Str("PUT"), Undefined}

\* what createEffect, createEffects and the creators are called with
CreateFns == {"effOne", "fn"}
CreateArgs == {<<>>, <<Str("one"), Str("two")>>}
CreateObjs ==
    {[fn |-> "fn"],
     [fn |-> "fn", args |-> <<Str("one"), Str("two")>>,
      cancel |-> Resolved(Undefined)],
     [fn |-> "effOne", args |-> <<Str("ok")>>],
     [fn |-> "effOne", cancel |-> Pending]}
EffectMaps == {<<>>, [one |-> "effOne", two |-> "effTwo"]}
CreatorPayloads == {Str("ok"), Str("nice")}

\* ------------------------------------------------------------- behaviour

\* the store right after createStore(rootReducer, applyMiddleware(
\* createMiddleware(extraArg)))
Init ==
    /\ state = InitState
    /\ listeners = <<>>
    /\ waiters = <<>>
    /\ runs = <<>>
    /\ extraArg \in ExtraArgs
    /\ passed = <<>>
    /\ dispatched = <<>>
    /\ emits = <<>>
    /\ invoked = <<>>
    /\ handled = <<>>
    /\ made = <<>>
    /\ hasStore = FALSE
    /\ second = Undefined
    /\ n = 0

\* the promise run r waits for: the one of its last yielded effect
awaited(w, r) ==
    LET eff == w.runs[r].eff
    IN IF "waiter" \in DOMAIN eff THEN w.waiters[eff.waiter].promise ELSE eff

\* store.dispatch(action) by the application
Dispatch(action) ==
    /\ n < MaxDispatch
    /\ n' = n + 1
    /\ Becomes(dispatch(World, action))

\* the promise run r waits for was resolved: the runtime resumes the
\* generator with its value
Resume(r) ==
    /\ runs[r].task = Pending
    /\ isPromise(awaited(World, r))
    /\ awaited(World, r).st = "resolved"
    /\ Becomes(onFulfilled(World, r, awaited(World, r).val))
    /\ UNCHANGED n

\* the task of run r was rejected: the .catch callback of the middleware
Catch(r) ==
    /\ runs[r].outer = Pending
    /\ runs[r].task.st = "rejected"
    /\ Becomes(catchCallback(World, r, runs[r].task.val))
    /\ UNCHANGED n

\* a variant of Pass that reports the value as the .catch callback reports
\* an error
PassReported(r) ==
    /\ runs[r].outer = Pending
    /\ runs[r].task.st = "resolved"
    /\ Becomes(Bind(dispatch(World, error(runs[r].task.val)), LAMBDA w1 :
               [w1 EXCEPT !.runs[r].outer = runs[r].task]))
    /\ UNCHANGED n

\* the task of run r was resolved: so is the promise .catch returned
Pass(r) ==
    /\ runs[r].outer = Pending
    /\ runs[r].task.st = "resolved"
    /\ Becomes([World EXCEPT !.runs[r].outer = runs[r].task])
    /\ UNCHANGED n

Next ==
    \/ \E action \in PlainInputs \cup EffectInputs : Dispatch(action)
    \/ \E r \in 1..Len(runs) : Resume(r)
    \/ \E r \in 1..Len(runs) : Catch(r)
    \/ \E r \in 1..Len(runs) : Pass(r)

Spec == Init /\ [][Next]_vars

\* --- the middleware again, with the further effects as the inputs

InitEffects ==
    /\ state \in PreloadedStates
    /\ listeners = <<>>
    /\ waiters = <<>>
    /\ runs = <<>>
    /\ extraArg \in ExtraArgs
    /\ passed = <<>>
    /\ dispatched = <<>>
    /\ emits = <<>>
    /\ invoked = <<>>
    /\ handled = <<>>
    /\ made = <<>>
    /\ hasStore = FALSE
    /\ second = Undefined
    /\ n = 0

\* store.dispatch(action) by the application
DispatchEffect(action) ==
    /\ n < MaxEffects
    /\ n' = n + 1
    /\ Becomes(dispatch(World, action))

NextEffects ==
    \/ \E action \in MorePlainInputs \cup MoreEffectInputs :
          DispatchEffect(action)
    \/ \E r \in 1..Len(runs) : Resume(r)
    \/ \E r \in 1..Len(runs) : Catch(r)
    \/ \E r \in 1..Len(runs) : Pass(r)

SpecEffects == InitEffects /\ [][NextEffects]_vars

\* --- the middleware of the module that has the STORE effect

InitStore ==
    /\ state = InitState
    /\ listeners = <<>>
    /\ waiters = <<>>
    /\ runs = <<>>
    /\ extraArg \in ExtraArgs
    /\ passed = <<>>
    /\ dispatched = <<>>
    /\ emits = <<>>
    /\ invoked = <<>>
    /\ handled = <<>>
    /\ made = <<>>
    /\ hasStore = TRUE
    /\ second = Undefined
    /\ n = 0

NextStore ==
    \/ \E action \in StoreInputs : Dispatch(action)
    \/ \E r \in 1..Len(runs) : Resume(r)
    \/ \E r \in 1..Len(runs) : Pass(r)

SpecStore == InitStore /\ [][NextStore]_vars

\* --- the middleware with effects that yield twice

DispatchSequence(action) ==
    /\ n < MaxSequence
    /\ n' = n + 1
    /\ Becomes(dispatch(World, action))

NextSequence ==
    \/ \E action \in SequenceInputs : DispatchSequence(action)
    \/ \E r \in 1..Len(runs) : Resume(r)
    \/ \E r \in 1..Len(runs) : Pass(r)

SpecSequence == Init /\ [][NextSequence]_vars

\* --- two stores with the middleware the module exports:
\* createStore(rootReducer, applyMiddleware(cofxMiddleware)), twice

InitStores ==
    /\ state = InitState
    /\ listeners = <<>>
    /\ waiters = <<>>
    /\ runs = <<>>
    /\ extraArg = Undefined
    /\ passed = <<>>
    /\ dispatched = <<>>
    /\ emits = <<>>
    /\ invoked = <<>>
    /\ handled = <<>>
    /\ made = <<>>
    /\ hasStore = FALSE
    /\ second = [state |-> InitState, listeners |-> <<>>, passed |-> <<>>,
                 dispatched |-> <<>>, owns |-> {}]
    /\ n = 0

DispatchFirst(action) ==
    /\ n < MaxStores
    /\ n' = n + 1
    /\ Becomes(dispatch(World, action))

DispatchSecond(action) ==
    /\ n < MaxStores
    /\ n' = n + 1
    /\ SetsSecond(dispatch(worldOfSecond, action))

ResumeFirst(r) ==
    /\ r \notin second.owns
    /\ Resume(r)

ResumeSecond(r) ==
    /\ r \in second.owns
    /\ runs[r].task = Pending
    /\ isPromise(awaited(World, r))
    /\ awaited(World, r).st = "resolved"
    /\ SetsSecond(onFulfilled(worldOfSecond, r, awaited(World, r).val))
    /\ UNCHANGED n

NextStores ==
    \/ \E action \in StoresInputs : DispatchFirst(action)
    \/ \E action \in StoresInputs : DispatchSecond(action)
    \/ \E r \in 1..Len(runs) : ResumeFirst(r)
    \/ \E r \in 1..Len(runs) : ResumeSecond(r)

SpecStores == InitStores /\ [][NextStores]_vars

\* --- the effect handler alone: the cofx middleware called with any value

Handle(effect) ==
    /\ n < MaxHandle
    /\ n' = n + 1
    /\ Becomes(effectHandler(World, effect, 0))

NextHandler == \E effect \in HandlerInputs : Handle(effect)

SpecHandler == Init /\ [][NextHandler]_vars

\* --- the emitter alone: any sequence of registrations and emissions

Sub(actionType) ==
    /\ n < MaxOps
    /\ n' = n + 1
    /\ Becomes(takeEffect(World, take(actionType), 0))

Emit(action) ==
    /\ n < MaxOps
    /\ n' = n + 1
    /\ Becomes(emit(World, action.type, action))

NextEmitter ==
    \/ \E action \in EmitInputs : Sub(action.type)
    \/ \E action \in EmitInputs : Emit(action)

SpecEmitter == Init /\ [][NextEmitter]_vars

\* --- the constructors: createEffect in both forms, createEffects, and the
\* creators it returns, whose actions the application dispatches

CreateEffect(fn, args) ==
    /\ n < MaxCreate
    /\ n' = n + 1
    /\ made' = Append(made, [form |-> "function", fn |-> fn, args |-> args,
                             out |-> createEffect(fn, args)])
    /\ UNCHANGED <<state, listeners, waiters, runs, extraArg, passed,
                   dispatched, emits, invoked, handled, hasStore, second>>

CreateEffectObj(obj) ==
    /\ n < MaxCreate
    /\ n' = n + 1
    /\ made' = Append(made, [form |-> "object", obj |-> obj,
                             out |-> createEffectObj(obj)])
    /\ UNCHANGED <<state, listeners, waiters, runs, extraArg, passed,
                   dispatched, emits, invoked, handled, hasStore, second>>

CreateEffects(effectMap) ==
    /\ n < MaxCreate
    /\ n' = n + 1
    /\ made' = Append(made, [form |-> "map", effectMap |-> effectMap,
                             out |-> createEffects(effectMap)])
    /\ UNCHANGED <<state, listeners, waiters, runs, extraArg, passed,
                   dispatched, emits, invoked, handled, hasStore, second>>

\* store.dispatch(effects[name](payload)) for a map createEffects returned
DispatchCreated(i, name, payload) ==
    /\ n < MaxCreate
    /\ n' = n + 1
    /\ made[i].form = "map"
    /\ name \in DOMAIN made[i].out
    /\ LET action == callCreator(made[i].out[name], payload)
       IN /\ made' = Append(made, [form |-> "call", of |-> i, name |-> name,
                                   payload |-> payload, out |-> action])
          /\ Sets(dispatch(World, action))

NextCreate ==
    \/ \E fn \in CreateFns, args \in CreateArgs : CreateEffect(fn, args)
    \/ \E obj \in CreateObjs : CreateEffectObj(obj)
    \/ \E effectMap \in EffectMaps : CreateEffects(effectMap)
    \/ \E i \in 1..Len(made), name \in {"one", "two"},
          payload \in CreatorPayloads : DispatchCreated(i, name, payload)
    \/ \E r \in 1..Len(runs) : Resume(r)
    \/ \E r \in 1..Len(runs) : Pass(r)

SpecCreate == Init /\ [][NextCreate]_vars

\* --- the root reducer alone: one application to any state and action

InitReducer ==
    /\ state \in StoreStates
    /\ listeners = <<>>
    /\ waiters = <<>>
    /\ runs = <<>>
    /\ extraArg = Undefined
    /\ passed = <<>>
    /\ dispatched = <<>>
    /\ emits = <<>>
    /\ invoked = <<>>
    /\ handled = <<>>
    /\ made = <<>>
    /\ hasStore = FALSE
    /\ second = Undefined
    /\ n = 0

Reduce(action) ==
    /\ n = 0
    /\ n' = n + 1
    /\ Becomes(next(World, action))

NextReducer == \E action \in ReducerInputs : Reduce(action)

SpecReducer == InitReducer /\ [][NextReducer]_vars


\* ------------------------------------------------------------- properties

isEffectEntry(e) == isEffectAction(e.action)
isPlainEntry(e) == ~isEffectAction(e.action)
declaredArgs(action) ==
    IF "args" \in DOMAIN action.payload THEN action.payload.args ELSE <<>>

\* C1: every create-effect action that passes through the middleware makes
\* the task runner call its function exactly once, with the arguments the
\* action declares, in order, followed by the extra argument the middleware
\* was created with: the runs are, one for one and in order, the
\* create-effect actions handled.
C1_InvokedOnceWithArgs ==
    LET effects == SelectSeq(passed, isEffectEntry)
    IN /\ Len(runs) = Len(effects)
       /\ \A i \in 1..Len(effects) :
            /\ runs[i].fn = effects[i].action.payload.fn
            /\ runs[i].args = declaredArgs(effects[i].action) \o <<extraArg>>

C1_Witness ==
    /\ extraArg = Str("extra")
    /\ \E i \in 1..Len(runs) :
         runs[i].fn = "fn" /\ runs[i].args = <<Str("props"), Str("extra")>>
    /\ \E i \in 1..Len(runs) :
         runs[i].fn = "effPut" /\ runs[i].args = <<wowGetIt, Str("extra")>>

errorsOf(e) == {i \in 1..Len(dispatched) : dispatched[i].action = error(e)}
rejectedWith(e) == {r \in 1..Len(runs) : runs[r].outer = Rejected(e)}

\* C2: when the function of a run rejects with E, the promise the middleware
\* returned for the run is pending until its .catch callback ran and is
\* rejected with E afterwards, and the store has received exactly one error
\* action {type: ERROR, payload: E} per run rejected with E.
C2_OneErrorActionAndReject ==
    /\ \A r \in 1..Len(runs) :
         /\ runs[r].task.st = "rejected"
              => runs[r].outer \in {Pending, Rejected(runs[r].task.val)}
         /\ runs[r].outer.st = "rejected" => runs[r].task = runs[r].outer
    /\ \A e \in {Str("some error")} :
         /\ Cardinality(errorsOf(e)) = Cardinality(rejectedWith(e))
         /\ Cardinality({i \in 1..Len(passed) : passed[i].action = error(e)})
              = Cardinality(rejectedWith(e))
    /\ \A i \in 1..Len(dispatched) :
         (dispatched[i].action # Undefined /\ dispatched[i].action.type = ERROR)
            => dispatched[i].action = error(Str("some error"))

C2_Witness ==
    /\ Cardinality(rejectedWith(Str("some error"))) = 2
    /\ Cardinality(errorsOf(Str("some error"))) = 2

\* C3: an action that is not a create-effect action, a missing one included,
\* is handed to the next link as it is, and the middleware's outcome is the
\* next link's outcome: the other actions handled by the middleware are, one
\* for one and in order, the calls of the store's own dispatch.
C3_ForwardedUnchanged ==
    LET plain == SelectSeq(passed, isPlainEntry)
    IN /\ Len(plain) = Len(dispatched)
       /\ \A i \in 1..Len(plain) :
            /\ plain[i].action = dispatched[i].action
            /\ plain[i].out = dispatched[i].out

C3_Witness ==
    /\ Len(passed) = 2
    /\ passed[1].action = Undefined
    /\ passed[1].out = Threw(Str("Actions must be plain objects."))
    /\ passed[2].action = something
    /\ passed[2].out = Returned(something)
    /\ Len(dispatched) = 2


Min(S) == CHOOSE x \in S : \A y \in S : x <= y

\* the actions of the waiter's type handled by the middleware after the
\* waiter was registered
laterOfType(wt) ==
    {i \in (wt.regAt + 1)..Len(passed) :
        /\ passed[i].action # Undefined
        /\ passed[i].action.type = wt.actionType}

\* C4: a TAKE registered for action type T is resolved with the first action
\* of type T dispatched after the registration, and stays pending while
\* there is none (so never with an action dispatched before).
C4_TakeFirstLater ==
    \A id \in 1..Len(waiters) :
        IF laterOfType(waiters[id]) = {}
        THEN waiters[id].promise = Pending
        ELSE waiters[id].promise =
                 Resolved(passed[Min(laterOfType(waiters[id]))].action)

\* the same for every type but the empty string
C4_TakeFirstLaterNonEmpty ==
    \A id \in 1..Len(waiters) :
        waiters[id].actionType # "" =>
            IF laterOfType(waiters[id]) = {}
            THEN waiters[id].promise = Pending
            ELSE waiters[id].promise =
                     Resolved(passed[Min(laterOfType(waiters[id]))].action)


\* the elements of a set of numbers in increasing order
RECURSIVE Ascending(_)
Ascending(S) ==
    IF S = {} THEN <<>>
    ELSE <<Min(S)>> \o Ascending(S \ {Min(S)})

\* the last emission of the type of emission k before k, 0 if there is none
emitBefore(k) ==
    LET earlier == {j \in 1..(k - 1) : emits[j].actionType = emits[k].actionType}
    IN IF earlier = {} THEN 0 ELSE CHOOSE j \in earlier : \A i \in earlier : i <= j

\* the waiters emission k is for: those of its type registered since the
\* last emission of that type
waitingAt(k) ==
    {id \in 1..Len(waiters) :
        /\ waiters[id].actionType = emits[k].actionType
        /\ waiters[id].regEmit >= emitBefore(k)
        /\ waiters[id].regEmit < k}

invokedEntry(k, e) == e.emit = k
callbacksOf(k) ==
    LET entries == SelectSeq(invoked, LAMBDA e : invokedEntry(k, e))
    IN [i \in 1..Len(entries) |-> entries[i].cb]

\* the waiters of a type registered since its last emission
waitingNow(actionType) ==
    LET of == {j \in 1..Len(emits) : emits[j].actionType = actionType}
        last == IF of = {} THEN 0 ELSE CHOOSE j \in of : \A i \in of : i <= j
    IN {id \in 1..Len(waiters) :
          /\ waiters[id].actionType = actionType
          /\ waiters[id].regEmit >= last}

\* C5: an emission of type T invokes, in the order they registered, exactly
\* the waiters registered for T before it and not served by an earlier
\* emission; the list of T is empty right after it, so at any time the list
\* holds the waiters registered since the last emission of T, which only a
\* later emission invokes.
C5_EmitInvokesInOrderAndClears ==
    /\ \A k \in 1..Len(emits) : callbacksOf(k) = Ascending(waitingAt(k))
    /\ \A t \in DOMAIN listeners : listeners[t] = Ascending(waitingNow(t))
    /\ \A id \in 1..Len(waiters) : has(listeners, waiters[id].actionType)

\* two waiters served in order by one emission, then a third registered for
\* the same type and served by the next one
C5_Witness ==
    /\ Len(emits) >= 2
    /\ emits[1].actionType = "SOMETHING"
    /\ emits[2].actionType = "SOMETHING"
    /\ callbacksOf(1) = <<1, 2>>
    /\ callbacksOf(2) = <<3>>
    /\ listeners["SOMETHING"] = <<>>

timesInvoked(id) == Cardinality({i \in 1..Len(invoked) : invoked[i].cb = id})

\* C6: no waiter is invoked more than once, whatever is registered and
\* emitted, and every waiter an emission is for is resolved with the action
\* of that emission, the same for all of them.
C6_OnceAndSameAction ==
    /\ \A id \in 1..Len(waiters) : timesInvoked(id) <= 1
    /\ \A i \in 1..Len(invoked) : invoked[i].data = emits[invoked[i].emit].data
    /\ \A k \in 1..Len(emits) : \A id \in waitingAt(k) :
         /\ timesInvoked(id) = 1
         /\ waiters[id].promise = Resolved(emits[k].data)

\* three waiters of one type resolved by the same emission, and a later
\* emission of the type that invokes nobody
C6_Witness ==
    /\ Len(emits) >= 2
    /\ emits[1].data = somethingElse
    /\ emits[2].data = something
    /\ waitingAt(1) = {1, 2, 3}
    /\ \A id \in {1, 2, 3} : waiters[id].promise = Resolved(somethingElse)
    /\ waitingAt(2) = {}


\* reducer(...reducer(reducer(state, a1), a2)..., an), written from the
\* outermost application inwards
RECURSIVE nested(_, _)
nested(s0, actions) ==
    IF actions = <<>> THEN s0
    ELSE reducer(nested(s0, Front(actions)), Last(actions))

isBatchMarker(action) == action.type = BATCH \/ action.type = BATCH_ACTIONS

\* C7: one call of the reducer enableBatching(reducer) returns with an
\* action of type BATCH or BATCH_ACTIONS and payload [a1..an] gives
\* reducer(...reducer(reducer(state, a1), a2)..., an), the state itself
\* when the payload is empty; any other action gives reducer(state, action).
C7_BatchFoldsLeftToRight ==
    \A i \in 1..Len(dispatched) :
        LET call == dispatched[i]
        IN call.out.kind = "return" =>
             call.state = IF isBatchMarker(call.action)
                          THEN nested(call.prev, call.action.payload.list)
                          ELSE reducer(call.prev, call.action)

\* both markers, with a payload whose order decides the result
C7_Witness ==
    /\ Len(dispatched) = 1
    /\ dispatched[1].action = batchActions(<<wowGetIt, awesomeOk, wowNice>>)
    /\ dispatched[1].prev = [awesome |-> Str("nice"), wow |-> Undefined]
    /\ state = [awesome |-> Str("ok"), wow |-> Str("nice")]

isEffectOf(fn, action) == isEffectAction(action) /\ action.payload.fn = fn

\* a list of plain actions followed by create-effect actions
plainThenEffects(actions) ==
    \A i, j \in 1..Len(actions) :
        (isEffectAction(actions[i]) /\ ~isEffectAction(actions[j])) => j < i

\* the store state after the application dispatches the plain members of
\* the list as one batchActions update and then its create-effect members
combinedThenEffects(actions) ==
    Bind(dispatch(World, batchActions(SelectSeq(actions, isNormalAction))),
         LAMBDA w1 :
         forEachDispatch(w1, SelectSeq(actions, isEffectAction)).state)

\* C8: when the application dispatches an effect whose function yields
\* batch([a, b, effectAction]), the store ends in the state it would be in
\* had a and b been dispatched as one combined update and effectAction
\* dispatched normally after it (what effectAction's function PUTs at once
\* overrides what a and b wrote).
C8_BatchLikeCombinedThenEffect ==
    [][\A action \in EffectInputs :
         (/\ isEffectOf("effBatch", action)
          /\ plainThenEffects(action.payload.args[1].list)
          /\ n' = n + 1
          /\ Len(passed') > Len(passed)
          /\ passed'[Len(passed) + 1].action = action)
         => state' = combinedThenEffects(action.payload.args[1].list)]_vars

C8_Witness ==
    /\ Len(handled) = 2
    /\ handled[2].effect = batch(<<awesomeOk, wowNice, otherEffect>>)
    /\ handled[1].effect = put(wowGetIt)
    /\ state = [awesome |-> Str("ok"), wow |-> Str("get it")]

\* C9: a batch effect whose list holds N plain actions and no create-effect
\* action makes one call of the store's own dispatch, with one action of
\* type BATCH carrying the N actions, so the reducer runs once and the
\* subscribers are notified once, whatever N is.
C9_BatchOneStoreDispatch ==
    \A i \in 1..Len(handled) :
        LET h == handled[i]
        IN (isBatch(h.effect) /\ SelectSeq(h.effect.actions, isEffectAction) = <<>>)
           => /\ h.to = h.from + 1
              /\ dispatched[h.to].action =
                    [type |-> BATCH, payload |-> List(h.effect.actions)]
              /\ dispatched[h.to].out.kind = "return"
              /\ dispatched[h.to].state =
                    nested(dispatched[h.to].prev, h.effect.actions)

\* a batch of two and a batch of none, one store dispatch each
C9_Witness ==
    /\ Len(handled) = 2
    /\ handled[1].effect = batch(<<awesomeOk, wowNice>>)
    /\ handled[2].effect = batch(<<>>)
    /\ Len(dispatched) = 2
    /\ state = [awesome |-> Str("ok"), wow |-> Str("nice")]

\* the store state when the effect logged as h was handled
stateAt(h) == IF h.from = 0 THEN InitState ELSE dispatched[h.from].state

\* C10: a SELECT effect select(sel, ...args) resolves with
\* sel(state, ...args) for the state the store holds when the effect is
\* handled, and that value is what the effect function gets back.
C10_SelectCurrentState ==
    \A i \in 1..Len(handled) :
        LET h == handled[i]
            expected == applySelector(h.effect.fn, stateAt(h), h.effect.args)
        IN isSelect(h.effect)
           => /\ h.result = Resolved(expected)
              /\ runs[h.run].task \in {Pending, Resolved(expected)}

\* a selector with an argument, applied to a state an earlier action made
C10_Witness ==
    /\ Len(handled) = 1
    /\ handled[1].effect = select("getById", <<Str("awesome")>>)
    /\ handled[1].from = 1
    /\ handled[1].result = Resolved(Str("ok"))
    /\ runs[1].outer = Resolved(Str("ok"))

\* C11: createEffect(f, x1..xn) is {type: EFFECT, payload: {fn: f, args:
\* [x1..xn]}}, and createEffect(obj) for a plain object is {type: EFFECT,
\* payload} where payload has exactly the fields of obj (fn, args, cancel, as
\* far as obj has them) with the same values.
C11_CreateEffectShape ==
    \A i \in 1..Len(made) :
        LET c == made[i]
        IN /\ c.form = "function" =>
                c.out = [type |-> EFFECT,
                         payload |-> [fn |-> c.fn, args |-> c.args]]
           /\ c.form = "object" =>
                /\ DOMAIN c.out = {"type", "payload"}
                /\ c.out.type = EFFECT
                /\ DOMAIN c.out.payload = DOMAIN c.obj
                /\ \A k \in DOMAIN c.obj : c.out.payload[k] = c.obj[k]

\* createEffect(fn, 'one', 'two') and createEffect({fn, args, cancel})
C11_Witness ==
    /\ \E i \in 1..Len(made) :
         /\ made[i].form = "function"
         /\ made[i].out.payload =
               [fn |-> "fn", args |-> <<Str("one"), Str("two")>>]
    /\ \E i \in 1..Len(made) :
         /\ made[i].form = "object"
         /\ made[i].out.payload =
               [fn |-> "fn", args |-> <<Str("one"), Str("two")>>,
                cancel |-> Resolved(Undefined)]

isCall(c) == c.form = "call"

\* C12: createEffects(m) returns a map with exactly the keys of m; the
\* creator under a name, called with payload p, returns {type: EFFECT,
\* payload: {fn: m[name], args: [p]}}; and after the application dispatched
\* effects.one('ok') and then effects.two('nice') (and nothing else), whose
\* functions PUT AWESOME and WOW with their payload, the store's state is
\* {awesome: 'ok', wow: 'nice'}.
C12_CreateEffectsCreators ==
    /\ \A i \in 1..Len(made) :
         LET c == made[i]
         IN /\ c.form = "map" => DOMAIN c.out = DOMAIN c.effectMap
            /\ c.form = "call" =>
                 c.out = [type |-> EFFECT,
                          payload |-> [fn |-> made[c.of].effectMap[c.name],
                                       args |-> <<c.payload>>]]
    /\ LET calls == SelectSeq(made, isCall)
       IN (/\ Len(calls) = 2
           /\ calls[1].name = "one" /\ calls[1].payload = Str("ok")
           /\ calls[2].name = "two" /\ calls[2].payload = Str("nice"))
          => state = [awesome |-> Str("ok"), wow |-> Str("nice")]

C12_Witness ==
    /\ Len(made) = 3
    /\ made[1].form = "map"
    /\ DOMAIN made[1].out = {"one", "two"}
    /\ made[2].out = createEffect("effOne", <<Str("ok")>>)
    /\ made[3].out = createEffect("effTwo", <<Str("nice")>>)
    /\ Len(dispatched) = 2
    /\ state = [awesome |-> Str("ok"), wow |-> Str("nice")]

\* the first effect the function of a run yields
firstYield(run) == GenNext(run.fn, run.args, 0, Undefined, InitState)

isPlainAction(action) ==
    action # Undefined /\ "type" \in DOMAIN action /\ action.type # EFFECT

handledBy(r) == {i \in 1..Len(handled) : handled[i].run = r}

\* C13: handling a PUT effect calls dispatch with the effect's action, as
\* the next action the middleware handles, and returns a promise that is
\* already resolved, whatever that dispatch started (a nested run that is
\* still pending included); and a run whose function yields PUT of a plain
\* action first has made the store's update in every state in which the run
\* exists, that is before the dispatch of its create-effect action returned.
C13_PutDispatchesAndResolves ==
    /\ \A i \in 1..Len(handled) :
         LET h == handled[i]
         IN isPut(h.effect) =>
              /\ Len(passed) > h.fromP
              /\ passed[h.fromP + 1].action = h.effect.action
              /\ h.result = Resolved(Undefined)
    /\ \A r \in 1..Len(runs) :
         LET first == firstYield(runs[r])
         IN (~first.done /\ isPut(first.value)
             /\ isPlainAction(first.value.action)) =>
              \E i \in handledBy(r) :
                  LET h == handled[i]
                  IN /\ h.effect = first.value
                     /\ h.to = h.from + 1
                     /\ dispatched[h.to].action = first.value.action
                     /\ dispatched[h.to].state =
                           reducer(dispatched[h.to].prev, first.value.action)

\* a PUT of a create-effect action whose run is still waiting for its TAKE,
\* while the run that made the PUT has ended
C13_Witness ==
    /\ Len(runs) = 2
    /\ Len(handled) = 2
    /\ handled[2].effect = put(takeSomething)
    /\ handled[2].result = Resolved(Undefined)
    /\ runs[1].outer = Resolved(Undefined)
    /\ runs[2].fn = "effTake"
    /\ runs[2].task = Pending
    /\ passed[2].action = takeSomething

\* The action handled as number i started a run of the function of the
\* create-effect action e, after store dispatch number `after`, and, where
\* that function yields PUT of a plain action first, the PUT reached the
\* store before store dispatch number `upto` returned.
startedNested(i, e, after, upto) ==
    /\ i <= Len(passed)
    /\ passed[i].action = e
    /\ "run" \in DOMAIN passed[i].out
    /\ LET r == passed[i].out.run
           first == firstYield(runs[r])
       IN /\ runs[r].at = i
          /\ runs[r].fn = e.payload.fn
          /\ runs[r].args = declaredArgs(e) \o <<extraArg>>
          /\ \A j \in handledBy(r) : handled[j].from >= after
          /\ (~first.done /\ isPut(first.value)
              /\ isPlainAction(first.value.action)) =>
                \E j \in handledBy(r) :
                    /\ handled[j].effect = first.value
                    /\ handled[j].to <= upto
                    /\ dispatched[handled[j].to].action = first.value.action

\* C14: a create-effect action an effect PUTs is the next action the
\* middleware handles and starts a run of its function, whose own PUT
\* reaches the store within the handling of the outer PUT.  Each
\* create-effect member of a batch is handled by the middleware after the
\* one BATCH action carrying the plain members was applied by the store,
\* and starts a run whose PUT reaches the store after that update.
C14_NestedEffectsStart ==
    \A k \in 1..Len(handled) :
        LET h == handled[k]
        IN /\ (isPut(h.effect) /\ isEffectAction(h.effect.action)) =>
                startedNested(h.fromP + 1, h.effect.action, h.from, h.to)
           /\ (isBatch(h.effect)
               /\ SelectSeq(h.effect.actions, isEffectAction) # <<>>) =>
                LET members == SelectSeq(h.effect.actions, isEffectAction)
                    plain == SelectSeq(h.effect.actions, isNormalAction)
                IN /\ dispatched[h.from + 1].action =
                         [type |-> BATCH, payload |-> List(plain)]
                   /\ dispatched[h.from + 1].state =
                         nested(dispatched[h.from + 1].prev, plain)
                   /\ \A m \in 1..Len(members) :
                        \E i \in (h.fromP + 2)..h.toP :
                            startedNested(i, members[m], h.from + 1, h.to)

\* an effect put by an effect, and an effect reached through a batch whose
\* PUT overrides what the batch's plain actions wrote
C14_Witness ==
    /\ Len(handled) = 4
    /\ handled[1].effect = put(wowGetIt)
    /\ handled[2].effect = put(otherEffect)
    /\ handled[3].effect = put(wowGetIt)
    /\ handled[4].effect = batch(<<awesomeOk, wowNice, otherEffect>>)
    /\ Len(runs) = 4
    /\ dispatched[2].action = [type |-> BATCH,
                               payload |-> List(<<awesomeOk, wowNice>>)]
    /\ dispatched[3].action = wowGetIt
    /\ state = [awesome |-> Str("ok"), wow |-> Str("get it")]

memberRuns(h) ==
    {r \in 1..Len(runs) : runs[r].at > h.fromP + 1 /\ runs[r].at <= h.toP}

\* the state the reducer makes of s0 and the first k actions the store's own
\* dispatch was called with, a batch counting as its actions in order
RECURSIVE replay(_, _)
replay(s0, k) ==
    IF k = 0 THEN s0
    ELSE LET action == dispatched[k].action
             before == replay(s0, k - 1)
         IN IF isBatchMarker(action) THEN nested(before, action.payload.list)
            ELSE reducer(before, action)

\* C18: when the run of a create-effect member of a batch is rejected with
\* E, the batch effect is resolved all the same and the run that yielded it
\* is not rejected; the store's state is what all the actions dispatched so
\* far make of the state the store began with, the batch's plain actions and the PUTs of
\* the other members included; and the failure shows only as error actions
\* {type: ERROR, payload: E}, one per run rejected with E, none of which
\* changes the state.
C18_BatchMemberFailure ==
    \A k \in 1..Len(handled) :
        LET h == handled[k]
        IN (isBatch(h.effect)
            /\ \E r \in memberRuns(h) : runs[r].task.st = "rejected") =>
             /\ h.result = Resolved(Undefined)
             /\ runs[h.run].task \in {Pending, Resolved(Undefined)}
             /\ runs[h.run].outer \in {Pending, Resolved(Undefined)}
             /\ state = replay(dispatched[1].prev, Len(dispatched))
             /\ \A r \in memberRuns(h) :
                  runs[r].task.st = "rejected" =>
                    LET e == runs[r].task.val
                    IN /\ Cardinality(errorsOf(e))
                            = Cardinality(rejectedWith(e))
                       /\ \A i \in errorsOf(e) :
                            dispatched[i].state = dispatched[i].prev

\* the last member failed and was reported: what the plain member and the
\* other effect member wrote is still there, the outer run ended normally
C18_Witness ==
    /\ Len(runs) = 3
    /\ runs[1].fn = "effBatch"
    /\ runs[1].outer = Resolved(Undefined)
    /\ runs[3].fn = "prom"
    /\ runs[3].outer = Rejected(Str("some error"))
    /\ Last(dispatched).action = error(Str("some error"))
    /\ state = [awesome |-> Str("ok"), wow |-> Str("get it")]

\* an object literal whose type is one of the four the handler has
classified(effect) ==
    /\ effect # Undefined
    /\ \A field \in {"constructor", "list", "str", "st"} :
         field \notin DOMAIN effect
    /\ "type" \in DOMAIN effect
    /\ effect.type \in {PUT, BATCH, SELECT, TAKE_}

\* C19: when the effect handler is called with a value that is not an
\* object literal of type PUT, BATCH, SELECT or TAKE, it returns that very
\* value and changes nothing: no action is dispatched or handled, no waiter
\* is registered, no run is started, the store's state stays.
C19_UnclassifiedPassThrough ==
    [][(Len(handled') = Len(handled) + 1
        /\ ~classified(Last(handled').effect)) =>
          /\ Last(handled').result = Last(handled').effect
          /\ UNCHANGED <<state, listeners, waiters, runs, passed, dispatched,
                         emits, invoked>>]_vars

\* an instance of a class with the type of PUT and an effect of the task
\* runner went through the handler, and nothing was dispatched
C19_Witness ==
    /\ Len(handled) = 2
    /\ handled[1].effect = putInstance
    /\ handled[1].result = putInstance
    /\ handled[2].effect = callFnEffect
    /\ handled[2].result = callFnEffect
    /\ dispatched = <<>>
    /\ passed = <<>>

\* the callbacks registered for the type of the action handled as number i
\* were invoked with it before anything else was done with it: no store
\* dispatch and no run had been added when they were called
wokenFirst(i) ==
    \A k \in 1..Len(passed[i].waiting) :
        \E j \in 1..Len(invoked) :
            /\ invoked[j].cb = passed[i].waiting[k]
            /\ emits[invoked[j].emit].at = i
            /\ invoked[j].data = passed[i].action
            /\ invoked[j].nd = passed[i].nd
            /\ invoked[j].nr = passed[i].nr

\* C20: for every action the middleware handles whose type has waiters, a
\* create-effect action included, the waiters are invoked with the action
\* before it is forwarded to the next link or its function is started.
C20_WakeBeforeHandling ==
    \A i \in 1..Len(passed) : wokenFirst(i)

\* the same for every action whose type is not the empty string
C20_WakeBeforeHandlingNonEmpty ==
    \A i \in 1..Len(passed) :
        (passed[i].action # Undefined /\ "type" \in DOMAIN passed[i].action
         /\ passed[i].action.type # "") => wokenFirst(i)

\* the last action the middleware handled within its handling of action
\* number i: the action itself, or the last one the first step of the run
\* it started caused
lastWithin(i) ==
    LET inside == {k \in 1..Len(handled) :
                     /\ "run" \in DOMAIN passed[i].out
                     /\ handled[k].run = passed[i].out.run
                     /\ handled[k].fromP = i}
    IN IF inside = {} THEN i ELSE handled[Min(inside)].toP

\* the actions among from..to that were dispatched by the handler at work,
\* not by a run one of them started
RECURSIVE topLevel(_, _)
topLevel(from, to) ==
    IF from > to THEN <<>>
    ELSE <<from>> \o topLevel(lastWithin(from) + 1, to)

notEffectAction(action) == ~isEffectAction(action)

\* C21: a BATCH effect puts every element of its list in exactly one of two
\* groups; the first action it dispatches is one bundle {type: BATCH,
\* payload} carrying the elements that are no create-effect action, in input
\* order, an empty bundle included, and that bundle reaches the store;
\* after it the create-effect elements are dispatched one by one in input
\* order, each starting a run; and the effect is resolved when these calls
\* have returned, whether or not the runs they started have ended.
C21_BatchTwoPhases ==
    \A k \in 1..Len(handled) :
        LET h == handled[k]
        IN isBatch(h.effect) =>
             LET plain == SelectSeq(h.effect.actions, notEffectAction)
                 members == SelectSeq(h.effect.actions, isEffectAction)
                 bundle == [type |-> BATCH, payload |-> List(plain)]
                 calls == topLevel(h.fromP + 1, h.toP)
             IN /\ Len(plain) + Len(members) = Len(h.effect.actions)
                /\ Len(calls) = 1 + Len(members)
                /\ passed[calls[1]].action = bundle
                /\ passed[calls[1]].out = Returned(bundle)
                /\ dispatched[h.from + 1].action = bundle
                /\ \A m \in 1..Len(members) :
                     /\ passed[calls[m + 1]].action = members[m]
                     /\ "run" \in DOMAIN passed[calls[m + 1]].out
                /\ h.result = Resolved(Undefined)

\* a batch without a plain action: the empty bundle went first, the two
\* members followed in order, and the run that yielded the batch has ended
\* while the run of the second member still waits for its TAKE
C21_Witness ==
    /\ Len(handled) = 3
    /\ handled[3].effect = batch(<<otherEffect, takeSomething>>)
    /\ handled[3].result = Resolved(Undefined)
    /\ Len(passed) = 5
    /\ passed[2].action = [type |-> BATCH, payload |-> List(<<>>)]
    /\ passed[3].action = otherEffect
    /\ passed[4].action = wowGetIt
    /\ passed[5].action = takeSomething
    /\ runs[1].outer = Resolved(Undefined)
    /\ runs[3].task = Pending

\* C22: no create-effect action is ever passed to the next link: none is
\* among the calls of the store's own dispatch, the outcome of handling one
\* is the promise of its run and not what the next link returned, and the
\* store's state is at any time the one its last call of the reducer left
\* (the initial one when there was none), each call starting from the
\* state the one before it left.  So handling a create-effect action
\* changes the state only through the actions its function dispatches.
C22_EffectNotForwarded ==
    /\ \A i \in 1..Len(dispatched) : ~isEffectAction(dispatched[i].action)
    /\ \A i \in 1..Len(passed) :
         isEffectAction(passed[i].action) =>
            /\ "run" \in DOMAIN passed[i].out
            /\ runs[passed[i].out.run].at = i
    /\ state = IF dispatched = <<>> THEN InitState ELSE Last(dispatched).state
    /\ \A i \in 1..Len(dispatched) :
         dispatched[i].prev = IF i = 1 THEN InitState
                              ELSE dispatched[i - 1].state

\* an effect whose function dispatches nothing left the store untouched,
\* and the only call of the reducer is for the action another effect PUT
C22_Witness ==
    /\ Len(passed) = 3
    /\ passed[1].action = createEffect("fn", <<Str("props")>>)
    /\ passed[2].action = createEffect("effPut", <<wowNice>>)
    /\ passed[3].action = wowNice
    /\ Len(dispatched) = 1
    /\ dispatched[1].action = wowNice
    /\ dispatched[1].prev = InitState
    /\ state = [awesome |-> Undefined, wow |-> Str("nice")]

isRegistered(id) ==
    /\ has(listeners, waiters[id].actionType)
    /\ \E k \in 1..Len(listeners[waiters[id].actionType]) :
          listeners[waiters[id].actionType][k] = id

\* C23: a waiter is invoked only with an action of the type it waits for;
\* as long as every action handled since its registration is of another
\* type (or missing), the waiter is still in the list of its type, has not
\* been invoked, and its promise is pending.
C23_OtherTypesLeaveWaiters ==
    /\ \A j \in 1..Len(invoked) :
         invoked[j].data.type = waiters[invoked[j].cb].actionType
    /\ \A id \in 1..Len(waiters) :
         laterOfType(waiters[id]) = {} =>
            /\ isRegistered(id)
            /\ timesInvoked(id) = 0
            /\ waiters[id].promise = Pending

\* a TAKE of SOMETHING that an action of type AWESOME went past
C23_Witness ==
    /\ Len(waiters) = 1
    /\ waiters[1].actionType = "SOMETHING"
    /\ Len(passed) = 2
    /\ passed[2].action = awesomeOk
    /\ passed[2].out = Returned(awesomeOk)
    /\ listeners["SOMETHING"] = <<1>>
    /\ invoked = <<>>
    /\ runs[1].task = Pending

\* C24: whenever the application dispatches a create-effect action, a new
\* run is started in that very call, of the action's function with the
\* action's arguments and the extra argument, whatever runs exist already
\* (pending runs of the same action included), and the runs that existed
\* are left as they were.
C24_EveryDispatchStartsRun ==
    [][\A action \in EffectInputs :
         (/\ n' = n + 1
          /\ Len(passed') > Len(passed)
          /\ passed'[Len(passed) + 1].action = action)
         => /\ Len(runs') > Len(runs)
            /\ runs'[Len(runs) + 1].fn = action.payload.fn
            /\ runs'[Len(runs) + 1].args = declaredArgs(action) \o <<extraArg>>
            /\ runs'[Len(runs) + 1].at = Len(passed) + 1
            /\ passed'[Len(passed) + 1].out = [run |-> Len(runs) + 1]
            /\ \A r \in 1..Len(runs) : runs'[r] = runs[r]]_vars

\* the same create-effect action dispatched twice: the second run started
\* while the first was suspended at its SELECT, and ended before it
C24_Witness ==
    /\ Len(passed) = 2
    /\ passed[1].action = passed[2].action
    /\ Len(runs) = 2
    /\ runs[1].fn = "effSelect"
    /\ runs[2].fn = "effSelect"
    /\ runs[1].args = runs[2].args
    /\ runs[1].task = Pending
    /\ runs[2].task.st = "resolved"

\* what the function of run r returns once it has ended without failure:
\* the functions that return what their TAKE or SELECT gave them return the
\* value the promise of that effect was resolved with, the others nothing
returnValue(r) ==
    IF runs[r].fn \in {"effTake", "effSelect"}
    THEN LET h == handled[Min(handledBy(r))]
         IN IF "waiter" \in DOMAIN h.result
            THEN waiters[h.result.waiter].promise.val
            ELSE h.result.val
    ELSE Undefined

isErrorAction(action) ==
    action # Undefined /\ "type" \in DOMAIN action /\ action.type = ERROR

\* C25: when the function of a run has ended without failure, the task is
\* resolved with what the function returned and the promise dispatch
\* returned is pending or resolved with that same value, never rejected;
\* the step that resolves it dispatches nothing; and the error actions
\* handled are as many as the runs whose promise is rejected, so none is
\* dispatched on behalf of a run that ended well.
C25_SuccessResolvesWithReturn ==
    /\ [](/\ \A r \in 1..Len(runs) :
              /\ runs[r].task.st = "resolved" =>
                   /\ runs[r].task = Resolved(returnValue(r))
                   /\ runs[r].outer \in {Pending, runs[r].task}
              /\ runs[r].outer.st = "resolved" => runs[r].outer = runs[r].task
          /\ Cardinality({i \in 1..Len(passed) :
                             isErrorAction(passed[i].action)})
               = Cardinality({r \in 1..Len(runs) :
                                runs[r].outer.st = "rejected"}))
    /\ [][\A r \in 1..Len(runs) :
            (runs[r].outer = Pending /\ runs'[r].outer.st = "resolved") =>
               UNCHANGED <<state, passed, dispatched>>]_vars

\* a function returned the action its TAKE gave it: the promise dispatch
\* returned is resolved with that action, and the store has seen one call,
\* the one for the action itself
C25_Witness ==
    /\ Len(runs) = 1
    /\ runs[1].fn = "effTake"
    /\ runs[1].task = Resolved(something)
    /\ runs[1].outer = Resolved(something)
    /\ Len(passed) = 2
    /\ Len(dispatched) = 1

\* the PUT handled for run r before the effect logged as number k
putBefore(r, k) ==
    {j \in 1..(k - 1) : handled[j].run = r /\ isPut(handled[j].effect)}

\* C26: when a function yields a PUT of a plain action and a SELECT after
\* it, the SELECT is handled after the store applied the PUT's action and
\* is resolved with the selector applied to the state the store's last
\* update left when the SELECT is handled: the PUT's update, or a later one
\* made meanwhile, never a state from before the PUT.
C26_SelectSeesPut ==
    \A k \in 1..Len(handled) :
        LET h == handled[k]
        IN (isSelect(h.effect) /\ putBefore(h.run, k) # {}) =>
             LET p == handled[Min(putBefore(h.run, k))]
             IN /\ p.to = p.from + 1
                /\ dispatched[p.to].action = p.effect.action
                /\ dispatched[p.to].state =
                      reducer(dispatched[p.to].prev, p.effect.action)
                /\ h.from >= p.to
                /\ h.result = Resolved(applySelector(h.effect.fn,
                                                     dispatched[h.from].state,
                                                     h.effect.args))

\* the function PUT AWESOME 'ok' into a store that had no value for it and
\* then selected that field: it got 'ok' and returned it
C26_Witness ==
    /\ Len(runs) = 1
    /\ Len(handled) = 2
    /\ handled[1].effect = put(awesomeOk)
    /\ dispatched[1].prev = InitState
    /\ handled[2].effect = select("getById", <<Str("awesome")>>)
    /\ handled[2].from = 1
    /\ handled[2].result = Resolved(Str("ok"))
    /\ runs[1].task = Resolved(Str("ok"))

\* the waiters the action handled as number i was given to
deliveredTo(i) ==
    {invoked[j].cb : j \in {j \in 1..Len(invoked) : emits[invoked[j].emit].at = i}}

\* C27: a waiter is only ever invoked for an action handled after it
\* registered, and its promise is pending as long as no action of its type
\* has been handled since; an action handled while the list of its type
\* was empty or missing is given to no waiter, neither then nor later.
C27_NoBuffering ==
    /\ \A j \in 1..Len(invoked) :
         emits[invoked[j].emit].at > waiters[invoked[j].cb].regAt
    /\ \A id \in 1..Len(waiters) :
         laterOfType(waiters[id]) = {} => waiters[id].promise = Pending
    /\ \A i \in 1..Len(passed) :
         passed[i].waiting = <<>> => deliveredTo(i) = {}

\* the function was woken by the first SOMETHING; the second one was
\* handled before the function went on to its second TAKE, which is
\* registered now and pending
C27_Witness ==
    /\ Len(passed) = 3
    /\ passed[1].action = takeTwice
    /\ passed[2].action = something
    /\ passed[3].action = somethingElse
    /\ passed[3].waiting = <<>>
    /\ Len(waiters) = 2
    /\ waiters[1].promise = Resolved(something)
    /\ waiters[2].regAt = 3
    /\ waiters[2].promise = Pending
    /\ listeners["SOMETHING"] = <<2>>
    /\ runs[1].task = Pending

waitersOfSecond == {id \in 1..Len(waiters) : waiters[id].run \in second.owns}
waitersOfFirst == {id \in 1..Len(waiters) : waiters[id].run \notin second.owns}

\* C28: with two stores that use the middleware the module exports, the
\* emitter of each store lists only waiters registered by runs of that
\* store, and a call that handles an action on one store leaves the
\* waiters of the other store as they are: not invoked, their promises as
\* before, the other emitter's lists unchanged.
C28_RegistryPerStore ==
    /\ [](/\ \A t \in DOMAIN listeners : \A k \in 1..Len(listeners[t]) :
               listeners[t][k] \in waitersOfFirst
          /\ \A t \in DOMAIN second.listeners :
               \A k \in 1..Len(second.listeners[t]) :
                  second.listeners[t][k] \in waitersOfSecond)
    /\ [][/\ Len(second'.passed) > Len(second.passed) =>
               /\ listeners' = listeners
               /\ \A id \in waitersOfFirst : waiters'[id] = waiters[id]
               /\ \A j \in (Len(invoked) + 1)..Len(invoked') :
                     invoked'[j].cb \notin waitersOfFirst
          /\ Len(passed') > Len(passed) =>
               /\ second'.listeners = second.listeners
               /\ \A id \in waitersOfSecond : waiters'[id] = waiters[id]
               /\ \A j \in (Len(invoked) + 1)..Len(invoked') :
                     invoked'[j].cb \notin waitersOfSecond]_vars

\* both stores have a function waiting for SOMETHING; the action was
\* dispatched on the second store and woke its waiter, the first store's
\* waiter is listed and pending
C28_Witness ==
    /\ Len(waiters) = 2
    /\ waiters[1].run \notin second.owns
    /\ waiters[2].run \in second.owns
    /\ waiters[1].actionType = "SOMETHING"
    /\ waiters[2].actionType = "SOMETHING"
    /\ Len(second.passed) = 2
    /\ second.passed[2].action = something
    /\ waiters[2].promise = Resolved(something)
    /\ waiters[1].promise = Pending
    /\ listeners["SOMETHING"] = <<1>>
    /\ second.listeners["SOMETHING"] = <<>>

=============================================================================
